---------------------------- MODULE Spec2Model ----------------------------
(***************************************************************************)
(* A model of the ft_irc server: the poll() loop of Server::run, the       *)
(* per-client read / write paths of Client, the line parser, the command   *)
(* handlers of Client::handleCommand and the channel registry.             *)
(*                                                                         *)
(* Text is modelled as sequences of one-character strings, so that         *)
(* framing, tokenising, upper-casing and nickname validation are computed  *)
(* the way the code computes them.  Output lines are records               *)
(* [num, args, text]: the numeric or verb, the variable parts in the order *)
(* the code concatenates them, and the fixed text.                         *)
(***************************************************************************)
EXTENDS Integers, Sequences, FiniteSets, TLC

(***************************************************************************)
(* Bounds of the model.                                                    *)
(***************************************************************************)
MaxClients == 2      \* client descriptors available: ListenFd+1 .. ListenFd+MaxClients
MaxConns   == 2      \* connections the environment opens in one run
MaxSegs    == 2      \* TCP segments the peers send in one run
MaxPieces  == 3      \* reads into which the peers cut a stream in one run
SndBufCap  == 3      \* units of kernel send buffer of a client socket
LineLen    == 2      \* units in which one output chunk (line + CRLF) is written

(***************************************************************************)
(* Program constants.                                                      *)
(***************************************************************************)
RecvMax  == 4095     \* sizeof(buffer) - 1 in Client::receiveData
BufLimit == 8192     \* the input buffer limit in Client::processData
ListenFd == 3        \* the descriptor socket() returns in Server::setup

ClientFds == (ListenFd + 1) .. (ListenFd + MaxClients)

\* The server password given to Server::Server.
Password == <<"p", "w">>

(***************************************************************************)
(* Characters and std::string operations (positions are 1-based here, 0    *)
(* stands for std::string::npos).                                          *)
(***************************************************************************)
CR == "\r"
LF == "\n"
SP == " "

Lower == <<"a","b","c","d","e","f","g","h","i","j","k","l","m",
           "n","o","p","q","r","s","t","u","v","w","x","y","z">>
Upper == <<"A","B","C","D","E","F","G","H","I","J","K","L","M",
           "N","O","P","Q","R","S","T","U","V","W","X","Y","Z">>
Digits == {"0","1","2","3","4","5","6","7","8","9"}

Range(s) == { s[k] : k \in DOMAIN s }

\* ::toupper on one character
ToUpperChar(c) ==
    IF \E k \in DOMAIN Lower : Lower[k] = c
    THEN Upper[CHOOSE k \in DOMAIN Lower : Lower[k] = c]
    ELSE c

\* std::transform(command.begin(), command.end(), command.begin(), ::toupper)
ToUpper(s) == [k \in DOMAIN s |-> ToUpperChar(s[k])]

\* the whitespace std::istringstream >> skips
IsSpace(c) == c \in {SP, "\t", LF, CR, "\f"}

\* s.find(pat, from): the least position p >= from where pat occurs, else 0
Find(s, pat, from) ==
    LET hits == { p \in from .. (Len(s) - Len(pat) + 1) :
                    SubSeq(s, p, p + Len(pat) - 1) = pat }
    IN  IF hits = {} THEN 0 ELSE CHOOSE p \in hits : \A q \in hits : p <= q

\* s.substr(p): from position p to the end
SubstrFrom(s, p) == SubSeq(s, p, Len(s))

\* the position reached by  while (p < size && line[p] == ' ') p++
RECURSIVE SkipSpaces(_, _)
SkipSpaces(s, p) ==
    IF p <= Len(s) /\ s[p] = SP THEN SkipSpaces(s, p + 1) ELSE p

\* while (iss >> param) params.push_back(param)
RECURSIVE Tokens(_)
Tokens(s) ==
    IF s = <<>> THEN <<>>
    ELSE IF IsSpace(s[1]) THEN Tokens(Tail(s))
    ELSE LET ends == { k \in 1 .. Len(s) : IsSpace(s[k]) }
             e    == IF ends = {} THEN Len(s) + 1
                     ELSE CHOOSE k \in ends : \A q \in ends : k <= q
         IN  <<SubSeq(s, 1, e - 1)>> \o Tokens(SubSeq(s, e, Len(s)))

\* The (command, params) Client::parseAndHandleCommand hands to
\* handleCommand for a non-empty line; ok = FALSE when it returns early
\* (a prefix with no space after it).
ParseLine(line) ==
    LET hasPrefix == line[1] = ":"
        prefixEnd == Find(line, <<SP>>, 1)
        start     == IF hasPrefix THEN SkipSpaces(line, prefixEnd + 1) ELSE 1
        cmdEnd    == Find(line, <<SP>>, start)
        paramStart == SkipSpaces(line, cmdEnd + 1)
        trailingStart == Find(line, <<SP, ":">>, paramStart)
        command   == IF cmdEnd = 0 THEN SubstrFrom(line, start)
                     ELSE SubSeq(line, start, cmdEnd - 1)
        params    == IF cmdEnd = 0 THEN <<>>
                     ELSE IF trailingStart # 0
                     THEN Tokens(SubSeq(line, paramStart, trailingStart - 1))
                            \o <<SubstrFrom(line, trailingStart + 2)>>
                     ELSE Tokens(SubstrFrom(line, paramStart))
    IN  IF hasPrefix /\ prefixEnd = 0
        THEN [ok |-> FALSE, command |-> <<>>, params |-> <<>>]
        ELSE [ok |-> TRUE, command |-> ToUpper(command), params |-> params]


(***************************************************************************)
(* State.                                                                  *)
(*   clients    Server::_clients: fd -> Client                             *)
(*   channels   Server::_channels: name -> Channel                         *)
(*   pollfds    Server::_pollfds: sequence of [fd, events, revents]        *)
(*   sock       the kernel's side of each client descriptor                *)
(*   backlog    connections waiting in the listen queue                    *)
(*   pc, i      the position of Server::run and its scan index             *)
(*   sent       the lines Client::sendData took in this loop iteration     *)
(*   dispatched the Client::handleCommand calls of this loop iteration     *)
(*              (what the code prints as "Command:" / "Parameters:")       *)
(*   history    every Client::handleCommand call and every client removal  *)
(*              since the server started, in order                         *)
(*   nConns, nSegs  the counters the bounds cap                            *)
(***************************************************************************)
VARIABLES clients, channels, pollfds, sock, backlog, pc, i,
          sent, dispatched, history, nConns, nSegs

vars == <<clients, channels, pollfds, sock, backlog, pc, i,
          sent, dispatched, history, nConns, nSegs>>

\* The part of the state the handlers read and write, passed through them.
World == [clients |-> clients, channels |-> channels, pollfds |-> pollfds,
          sock |-> sock, sent |-> sent, dispatched |-> dispatched,
          history |-> history]

Commit(w) ==
    /\ clients' = w.clients
    /\ channels' = w.channels
    /\ pollfds' = w.pollfds
    /\ sock' = w.sock
    /\ sent' = w.sent
    /\ dispatched' = w.dispatched
    /\ history' = w.history

Line(num, args, text) == [num |-> num, args |-> args, text |-> text]

\* Client::Client; received is every byte recv() has handed to this client,
\* which the code shows as "Received data: "
NewClient ==
    [nickname |-> <<>>, username |-> <<>>, buffer |-> <<>>,
     authenticated |-> FALSE, disconnected |-> FALSE,
     channels |-> <<>>, outgoing |-> <<>>, received |-> <<>>]

\* a descriptor not in use, and the socket accept() returns
ClosedSock ==
    [open |-> FALSE, inq |-> <<>>, fin |-> FALSE, err |-> FALSE,
     free |-> SndBufCap, wire |-> <<>>]
FreshSock == [ClosedSock EXCEPT !.open = TRUE]

\* units a .. b of the chunk line + CRLF, as they appear on the wire
Units(line, a, b) == [k \in 1 .. (b - a + 1) |-> [line |-> line, unit |-> a + k - 1]]

\* Client::setDisconnected
SetDisconnected(w, fd) == [w EXCEPT !.clients[fd].disconnected = TRUE]

\* a queue that takes the new chunk at its head
Push_AtHead(w, fd, line, off) ==
    [w EXCEPT !.clients[fd].outgoing = <<[line |-> line, off |-> off]>> \o @]

\* _outgoingMessages.push: a chunk is the line and the units of it already sent
Push(w, fd, line, off) ==
    [w EXCEPT !.clients[fd].outgoing = Append(@, [line |-> line, off |-> off])]

\* send(fd, ...) of the units after off of a chunk: what the socket takes.
\* -1 is an error other than EAGAIN, 0 is EAGAIN, else the units written.
SendResult(s, off) ==
    IF ~s.open \/ s.err THEN -1
    ELSE IF s.free = 0 THEN 0
    ELSE IF s.free < LineLen - off THEN s.free
    ELSE LineLen - off

\* the socket after send() wrote n units of line, from unit off + 1
Written(s, line, off, n) ==
    [s EXCEPT !.wire = @ \o Units(line, off + 1, off + n), !.free = @ - n]

\* Client::sendData
SendData(w, fd, line) ==
    LET c == w.clients[fd]
        s == w.sock[fd]
        n == SendResult(s, 0)
        w1 == [w EXCEPT !.sent = Append(@, [fd |-> fd, line |-> line])]
    IN  IF c.disconnected THEN w
        ELSE IF c.outgoing = <<>>
        THEN IF n < 0 THEN SetDisconnected(w1, fd)
             ELSE IF n = 0 THEN Push(w1, fd, line, 0)
             ELSE IF n < LineLen
             THEN Push([w1 EXCEPT !.sock[fd] = Written(s, line, 0, n)], fd, line, n)
             ELSE [w1 EXCEPT !.sock[fd] = Written(s, line, 0, n)]
        ELSE Push(w1, fd, line, 0)

\* Client::sendPendingData
RECURSIVE SendPendingData(_, _)
SendPendingData(w, fd) ==
    LET c == w.clients[fd]
        s == w.sock[fd]
        m == Head(c.outgoing)
        n == SendResult(s, m.off)
    IN  IF c.outgoing = <<>> THEN w
        ELSE IF n < 0 THEN SetDisconnected(w, fd)
        ELSE IF n = 0 THEN w
        ELSE IF n < LineLen - m.off
        THEN [w EXCEPT !.sock[fd] = Written(s, m.line, m.off, n),
                       !.clients[fd].outgoing[1].off = m.off + n]
        ELSE SendPendingData(
               [w EXCEPT !.sock[fd] = Written(s, m.line, m.off, n),
                         !.clients[fd].outgoing = Tail(@)], fd)

(***************************************************************************)
(* Channel.  A Channel* is modelled by the channel's name, a Client* by    *)
(* the client's fd.                                                        *)
(***************************************************************************)
\* std::find + erase: s without the first occurrence of x
RemoveFirst(s, x) ==
    IF \E k \in DOMAIN s : s[k] = x
    THEN LET p == CHOOSE k \in DOMAIN s : s[k] = x /\ \A q \in 1 .. (k - 1) : s[q] # x
         IN  SubSeq(s, 1, p - 1) \o SubSeq(s, p + 1, Len(s))
    ELSE s

\* Channel::hasClient
HasClient(ch, fd) == fd \in Range(ch.clients)

\* Channel::addClient
AddClient(ch, fd) ==
    IF ~HasClient(ch, fd) THEN [ch EXCEPT !.clients = Append(@, fd)] ELSE ch

\* Channel::addOperator
AddOperator(ch, fd) ==
    IF HasClient(ch, fd) THEN [ch EXCEPT !.operators = @ \cup {fd}] ELSE ch

\* Channel::removeOperator
RemoveOperator(ch, fd) == [ch EXCEPT !.operators = @ \ {fd}]

\* Channel::removeClient
ChannelRemoveClient(ch, fd) ==
    RemoveOperator([ch EXCEPT !.clients = RemoveFirst(@, fd)], fd)

\* Channel::isOperator
IsOperator(ch, fd) == fd \in ch.operators

\* Channel::Channel
NewChannel(creator) ==
    AddOperator(
      AddClient([topic |-> <<>>, password |-> <<>>, clients |-> <<>>,
                 operators |-> {}, invitedUsers |-> {}, userLimit |-> 0,
                 inviteOnly |-> FALSE, topicRestricted |-> TRUE], creator),
      creator)

\* Channel::broadcastMessage(message), over the roster from position k
RECURSIVE BroadcastFrom(_, _, _, _)
BroadcastFrom(w, roster, k, line) ==
    IF k > Len(roster) THEN w
    ELSE BroadcastFrom(SendData(w, roster[k], line), roster, k + 1, line)

BroadcastMessage(w, name, line) ==
    BroadcastFrom(w, w.channels[name].clients, 1, line)

\* Channel::getNamesList
RECURSIVE NamesFrom(_, _, _)
NamesFrom(w, name, k) ==
    LET ch == w.channels[name]
        fd == ch.clients[k]
    IN  IF k > Len(ch.clients) THEN <<>>
        ELSE (IF IsOperator(ch, fd) THEN <<"@">> ELSE <<>>)
               \o w.clients[fd].nickname \o <<SP>> \o NamesFrom(w, name, k + 1)

GetNamesList(w, name) == NamesFrom(w, name, 1)

(***************************************************************************)
(* Client: channel membership.                                             *)
(***************************************************************************)
\* Client::isInChannel
IsInChannel(c, name) == name \in Range(c.channels)

\* Client::joinChannel
JoinChannel(w, fd, name) ==
    IF ~IsInChannel(w.clients[fd], name)
    THEN [w EXCEPT !.clients[fd].channels = Append(@, name),
                   !.channels[name] = AddClient(@, fd)]
    ELSE w

\* Client::leaveChannel
LeaveChannel(w, fd, name) ==
    IF IsInChannel(w.clients[fd], name)
    THEN [w EXCEPT !.clients[fd].channels = RemoveFirst(@, name),
                   !.channels[name] = ChannelRemoveClient(@, fd)]
    ELSE w

\* a function without the key k (std::map::erase)
Erase(f, k) == [x \in DOMAIN f \ {k} |-> f[x]]

\* Server::getChannel: whether the name has a channel
ChannelExists(w, name) == name \in DOMAIN w.channels

\* Server::createChannel
CreateChannel(w, name, creator) ==
    IF ChannelExists(w, name) THEN w
    ELSE [w EXCEPT !.channels =
            [x \in DOMAIN w.channels \cup {name} |->
               IF x = name THEN NewChannel(creator) ELSE w.channels[x]]]

\* Channel::~Channel: every member of the roster copy leaves
RECURSIVE DestroyChannelFrom(_, _, _, _)
DestroyChannelFrom(w, name, copy, k) ==
    IF k > Len(copy) THEN w
    ELSE DestroyChannelFrom(
           IF copy[k] \in DOMAIN w.clients THEN LeaveChannel(w, copy[k], name) ELSE w,
           name, copy, k + 1)

\* Server::removeChannel
RemoveChannel(w, name) ==
    IF ChannelExists(w, name)
    THEN LET w1 == DestroyChannelFrom(w, name, w.channels[name].clients, 1)
         IN  [w1 EXCEPT !.channels = Erase(@, name)]
    ELSE w


(***************************************************************************)
(* Client: commands.                                                       *)
(***************************************************************************)
PASS == <<"P","A","S","S">>
NICK == <<"N","I","C","K">>
USER == <<"U","S","E","R">>
QUIT == <<"Q","U","I","T">>
JOIN == <<"J","O","I","N">>
PRIVMSG == <<"P","R","I","V","M","S","G">>
PART == <<"P","A","R","T">>
MODE == <<"M","O","D","E">>
TOPIC == <<"T","O","P","I","C">>
INVITE == <<"I","N","V","I","T","E">>

\* the backquote of the nickname alphabet (a TLA+ string cannot hold it)
Grave == "grave"

\* the characters Client::handleCommand accepts in a nickname
NickChars == Range(Lower) \cup Range(Upper) \cup Digits
               \cup {"[", "]", "\\", Grave, "_", "^", "{", "|", "}"}

\* the nickname test of the NICK branch: TRUE when 432 is sent
ErroneousNick(n) == n = <<>> \/ Len(n) > 9 \/ \E k \in DOMAIN n : n[k] \notin NickChars

\* Server::checkPassword
CheckPassword(p) == p = Password

\* the gate with JOIN left out of it
RequiresAuth_JoinUngated == {PRIVMSG, PART, MODE, TOPIC, INVITE}

\* the commands the code refuses before registration
RequiresAuth == {JOIN, PRIVMSG, PART, MODE, TOPIC, INVITE}

\* the local  bool _passwordValidated = false  as the NICK and USER branches
\* read it: only the PASS branch assigns it, and the call ends there.
PasswordValidated == FALSE

\* Client::completeRegistration
CompleteRegistration(w, fd) ==
    LET nick == w.clients[fd].nickname
        user == w.clients[fd].username
        w0 == [w EXCEPT !.clients[fd].authenticated = TRUE]
        w1 == SendData(w0, fd, Line("001", <<nick, nick, user>>, "Welcome to the Internet Relay Network"))
        w2 == SendData(w1, fd, Line("002", <<nick>>, "Your host is ft_irc, running version 1.0"))
        w3 == SendData(w2, fd, Line("003", <<nick>>, "This server was created today"))
        w4 == SendData(w3, fd, Line("004", <<nick>>, "ft_irc 1.0 o o"))
    IN  SendData(w4, fd, Line("422", <<nick>>, "MOTD File is missing"))

\* the PASS branch of Client::handleCommand
HandlePass(w, fd, params) ==
    IF w.clients[fd].authenticated
    THEN SendData(w, fd, Line("462", <<>>, "You may not reregister"))
    ELSE IF Len(params) < 1
    THEN SendData(w, fd, Line("461", <<>>, "PASS :Not enough parameters"))
    ELSE IF CheckPassword(params[1]) THEN w
    ELSE SetDisconnected(SendData(w, fd, Line("464", <<>>, "Password incorrect")), fd)

\* the TOPIC branch of Client::handleCommand
HandleTopic(w, fd, params) ==
    LET c == w.clients[fd]
        nick == c.nickname
        channelName == params[1]
        ch == w.channels[channelName]
    IN  IF Len(params) < 1
        THEN SendData(w, fd, Line("461", <<nick>>, "TOPIC :Not enough parameters"))
        ELSE IF ~ChannelExists(w, channelName)
        THEN SendData(w, fd, Line("403", <<nick, channelName>>, "No such channel"))
        ELSE IF ~IsInChannel(c, channelName)
        THEN SendData(w, fd, Line("442", <<nick, channelName>>, "You're not on that channel"))
        ELSE IF Len(params) = 1
        THEN IF ch.topic # <<>>
             THEN SendData(w, fd, Line("332", <<nick, channelName, ch.topic>>, ""))
             ELSE SendData(w, fd, Line("331", <<nick, channelName>>, "No topic is set"))
        ELSE IF ch.topicRestricted /\ ~IsOperator(ch, fd)
        THEN SendData(w, fd, Line("482", <<nick, channelName>>, "You're not channel operator"))
        ELSE BroadcastMessage([w EXCEPT !.channels[channelName].topic = params[2]],
                              channelName,
                              Line("TOPIC", <<nick, c.username, channelName, params[2]>>, ""))

\* the NICK branch dropping the connection of a client that sends a bad nickname
HandleNick_DropsOnBadNick(w, fd, params) ==
    LET newNick == params[1]
        w1 == [w EXCEPT !.clients[fd].nickname = newNick]
    IN  IF Len(params) < 1
        THEN SendData(w, fd, Line("431", <<>>, "No nickname given"))
        ELSE IF ErroneousNick(newNick)
        THEN SetDisconnected(
               SendData(w, fd, Line("432", <<newNick>>, "Erroneous nickname")), fd)
        ELSE w1

\* the NICK branch of Client::handleCommand
HandleNick(w, fd, params) ==
    LET newNick == params[1]
        w1 == [w EXCEPT !.clients[fd].nickname = newNick]
    IN  IF Len(params) < 1
        THEN SendData(w, fd, Line("431", <<>>, "No nickname given"))
        ELSE IF ErroneousNick(newNick)
        THEN SendData(w, fd, Line("432", <<newNick>>, "Erroneous nickname"))
        ELSE IF w1.clients[fd].username # <<>> /\ PasswordValidated
                  /\ ~w1.clients[fd].authenticated
        THEN CompleteRegistration(w1, fd)
        ELSE w1

\* the USER branch of Client::handleCommand
HandleUser(w, fd, params) ==
    LET w1 == [w EXCEPT !.clients[fd].username = params[1]]
    IN  IF w.clients[fd].authenticated
        THEN SendData(w, fd, Line("462", <<>>, "You may not reregister"))
        ELSE IF ~PasswordValidated
        THEN SendData(w, fd, Line("464", <<>>, "Password required"))
        ELSE IF Len(params) < 4
        THEN SendData(w, fd, Line("461", <<>>, "USER :Not enough parameters"))
        ELSE IF w1.clients[fd].nickname # <<>>
        THEN CompleteRegistration(w1, fd)
        ELSE w1

\* the JOIN branch of Client::handleCommand
HandleJoin(w, fd, params) ==
    LET c == w.clients[fd]
        nick == c.nickname
        channelName == params[1]
        w1 == CreateChannel(w, channelName, fd)
        w2 == JoinChannel(w1, fd, channelName)
        w3 == BroadcastMessage(w2, channelName,
                               Line("JOIN", <<nick, c.username, channelName>>, ""))
        topic == w3.channels[channelName].topic
        w4 == IF topic # <<>>
              THEN SendData(w3, fd, Line("332", <<nick, channelName, topic>>, ""))
              ELSE SendData(w3, fd, Line("331", <<nick, channelName>>, "No topic is set"))
        w5 == SendData(w4, fd, Line("353", <<nick, channelName, GetNamesList(w4, channelName)>>, ""))
    IN  IF Len(params) < 1
        THEN SendData(w, fd, Line("461", <<nick>>, "JOIN :Not enough parameters"))
        ELSE IF channelName = <<>> \/ channelName[1] # "#"
        THEN SendData(w, fd, Line("403", <<nick, channelName>>, "No such channel"))
        ELSE SendData(w5, fd, Line("366", <<nick, channelName>>, "End of /NAMES list"))

\* Client::handleCommand
HandleCommand(w, fd, command, params) ==
    LET w0 == [w EXCEPT !.dispatched =
                 Append(@, [fd |-> fd, command |-> command, params |-> params,
                            authenticated |-> w.clients[fd].authenticated]),
                        !.history =
                 Append(@, [fd |-> fd, command |-> command, params |-> params])]
    IN  IF command \in RequiresAuth /\ ~w.clients[fd].authenticated
        THEN SendData(w0, fd, Line("451", <<>>, "You have not registered"))
        ELSE IF command = PASS THEN HandlePass(w0, fd, params)
        ELSE IF command = TOPIC THEN HandleTopic(w0, fd, params)
        ELSE IF command = NICK THEN HandleNick(w0, fd, params)
        ELSE IF command = USER THEN HandleUser(w0, fd, params)
        ELSE IF command = JOIN THEN HandleJoin(w0, fd, params)
        ELSE w0

\* Client::parseAndHandleCommand
ParseAndHandleCommand(w, fd, line) ==
    LET p == ParseLine(line)
    IN  IF p.ok THEN HandleCommand(w, fd, p.command, p.params) ELSE w

\* Client::processData
RECURSIVE ProcessData(_, _)
ProcessData(w, fd) ==
    LET buf == w.clients[fd].buffer
        pos == Find(buf, <<CR, LF>>, 1)
        line == SubSeq(buf, 1, pos - 1)
        w1 == [w EXCEPT !.clients[fd].buffer = SubstrFrom(buf, pos + 2)]
    IN  IF pos # 0
        THEN ProcessData(IF line = <<>> THEN w1 ELSE ParseAndHandleCommand(w1, fd, line), fd)
        ELSE IF Len(buf) > BufLimit
        THEN [SendData(w, fd, Line("ERROR", <<>>, "Client exceeded buffer size limit"))
                EXCEPT !.clients[fd].buffer = <<>>]
        ELSE w

\* recv(_fd, buffer, sizeof(buffer) - 1, 0): -1 an error other than EAGAIN,
\* -2 EAGAIN / EWOULDBLOCK, else the number of bytes read
RecvResult(s) ==
    IF ~s.open \/ s.err THEN -1
    ELSE IF s.inq # <<>> THEN (IF Len(s.inq) < RecvMax THEN Len(s.inq) ELSE RecvMax)
    ELSE IF s.fin THEN 0
    ELSE -2

\* receiveData keeping nothing of a read that ends inside a frame
ReceiveData_DropsPartialFrame(w, fd) ==
    LET s == w.sock[fd]
        n == RecvResult(s)
        w1 == [w EXCEPT !.sock[fd].inq = SubstrFrom(s.inq, n + 1),
                        !.clients[fd].buffer = @ \o SubSeq(s.inq, 1, n),
                        !.clients[fd].received = @ \o SubSeq(s.inq, 1, n)]
    IN  IF n = -2 THEN [w |-> w, ok |-> TRUE]
        ELSE IF n <= 0 THEN [w |-> w, ok |-> FALSE]
        ELSE [w |-> [ProcessData(w1, fd) EXCEPT !.clients[fd].buffer = <<>>],
              ok |-> TRUE]

\* Client::receiveData: the world after it and the value it returns
ReceiveData(w, fd) ==
    LET s == w.sock[fd]
        n == RecvResult(s)
        w1 == [w EXCEPT !.sock[fd].inq = SubstrFrom(s.inq, n + 1),
                        !.clients[fd].buffer = @ \o SubSeq(s.inq, 1, n),
                        !.clients[fd].received = @ \o SubSeq(s.inq, 1, n)]
    IN  IF n = -2 THEN [w |-> w, ok |-> TRUE]
        ELSE IF n <= 0 THEN [w |-> w, ok |-> FALSE]
        ELSE [w |-> ProcessData(w1, fd), ok |-> TRUE]

(***************************************************************************)
(* Server.                                                                 *)
(***************************************************************************)
\* the erase loop over _pollfds: without the first entry whose fd is fd
ErasePollfd(pfds, fd) ==
    IF \E k \in DOMAIN pfds : pfds[k].fd = fd
    THEN LET p == CHOOSE k \in DOMAIN pfds :
                    pfds[k].fd = fd /\ \A q \in 1 .. (k - 1) : pfds[q].fd # fd
         IN  SubSeq(pfds, 1, p - 1) \o SubSeq(pfds, p + 1, Len(pfds))
    ELSE pfds

\* the loop of Server::removeClient over the copy of the client's channels
RECURSIVE LeaveAllNotifying(_, _, _, _)
LeaveAllNotifying(w, fd, copy, k) ==
    LET name == copy[k]
        c == w.clients[fd]
        w1 == BroadcastMessage(w, name, Line("QUIT", <<c.nickname, c.username>>, "Connection closed"))
        w2 == LeaveChannel(w1, fd, name)
        w3 == IF w2.channels[name].clients = <<>> THEN RemoveChannel(w2, name) ELSE w2
    IN  IF k > Len(copy) THEN w
        ELSE LeaveAllNotifying(IF ChannelExists(w, name) THEN w3 ELSE w, fd, copy, k + 1)

\* Client::~Client
RECURSIVE DestroyClientFrom(_, _, _, _)
DestroyClientFrom(w, fd, copy, k) ==
    IF k > Len(copy) THEN w
    ELSE DestroyClientFrom(
           IF ChannelExists(w, copy[k]) THEN LeaveChannel(w, fd, copy[k]) ELSE w,
           fd, copy, k + 1)

\* close(clientFd)
Close(w, fd) == [w EXCEPT !.sock[fd].open = FALSE]

\* the entry of history for the removal of a client (no command is spelt so:
\* commands are upper-cased)
Removed == <<"removed">>

\* removeClient leaving the descriptor's entry in the poll array
RemoveClient_KeepsPollfd(w, fd) ==
    LET w1 == LeaveAllNotifying(w, fd, w.clients[fd].channels, 1)
        w2 == DestroyClientFrom(w1, fd, w1.clients[fd].channels, 1)
        w3 == IF fd \in DOMAIN w.clients
              THEN [w2 EXCEPT !.clients = Erase(@, fd),
                              !.history = Append(@, [fd |-> fd, command |-> Removed,
                                                     params |-> <<>>])]
              ELSE w
    IN  Close(w3, fd)

\* Server::removeClient
RemoveClient(w, fd) ==
    LET w1 == LeaveAllNotifying(w, fd, w.clients[fd].channels, 1)
        w2 == DestroyClientFrom(w1, fd, w1.clients[fd].channels, 1)
        w3 == IF fd \in DOMAIN w.clients
              THEN [w2 EXCEPT !.clients = Erase(@, fd),
                              !.history = Append(@, [fd |-> fd, command |-> Removed,
                                                     params |-> <<>>])]
              ELSE w
    IN  [Close(w3, fd) EXCEPT !.pollfds = ErasePollfd(@, fd)]

\* addClient giving the descriptor a pollfd but no Client
ServerAddClient_OnlyPollfd(w, fd, revents) ==
    [w EXCEPT !.pollfds = Append(@, [fd |-> fd, events |-> {"POLLIN"}, revents |-> revents])]

\* Server::addClient; revents is what the new pollfd holds
ServerAddClient(w, fd, revents) ==
    [w EXCEPT !.clients = [x \in DOMAIN w.clients \cup {fd} |->
                             IF x = fd THEN NewClient ELSE w.clients[x]],
              !.pollfds = Append(@, [fd |-> fd, events |-> {"POLLIN"}, revents |-> revents])]

\* handleClientData erasing, after removeClient, whatever entry now stands
\* where the client's entry stood
HandleClientData_ErasesByPosition(w, fd) ==
    LET r == ReceiveData(w, fd)
        w1 == RemoveClient(r.w, fd)
        at == CHOOSE k \in DOMAIN w.pollfds : w.pollfds[k].fd = fd
    IN  IF fd \notin DOMAIN w.clients THEN w
        ELSE IF ~r.ok
        THEN [w1 EXCEPT !.pollfds = SubSeq(@, 1, at - 1) \o SubSeq(@, at + 1, Len(@))]
        ELSE r.w

\* Server::handleClientData
HandleClientData(w, fd) ==
    LET r == ReceiveData(w, fd)
        w1 == RemoveClient(r.w, fd)
    IN  IF fd \notin DOMAIN w.clients THEN w
        ELSE IF ~r.ok THEN [w1 EXCEPT !.pollfds = ErasePollfd(@, fd)]
        ELSE r.w

\* the second loop of Server::checkAndRemoveDisconnectedClients
RECURSIVE RemoveAll(_, _, _)
RemoveAll(w, toRemove, k) ==
    IF k > Len(toRemove) THEN w
    ELSE RemoveAll(RemoveClient(w, toRemove[k]), toRemove, k + 1)

\* the keys of a set of descriptors in ascending order (std::map iteration)
RECURSIVE Ascending(_)
Ascending(S) ==
    IF S = {} THEN <<>>
    ELSE LET m == CHOOSE x \in S : \A y \in S : x <= y
         IN  <<m>> \o Ascending(S \ {m})

\* the sweep removing while it iterates over _clients, so that it stops
\* after the first removal
CheckAndRemoveDisconnectedClients_StopsAfterFirst(w) ==
    LET toRemove == Ascending({fd \in DOMAIN w.clients : w.clients[fd].disconnected})
    IN  IF toRemove = <<>> THEN w ELSE RemoveClient(w, toRemove[1])

\* Server::checkAndRemoveDisconnectedClients
CheckAndRemoveDisconnectedClients(w) ==
    RemoveAll(w, Ascending({fd \in DOMAIN w.clients : w.clients[fd].disconnected}), 1)


(***************************************************************************)
(* The environment: what the peers send.  A frame is a line with its CRLF; *)
(* a segment is what one recv() finds in the socket.                       *)
(***************************************************************************)
FPassOk == <<"P","A","S","S",SP,"p","w",CR,LF>>
FPassBad == <<"P","A","S","S",SP,"n","o",CR,LF>>
FNickA == <<"N","I","C","K",SP,"a",CR,LF>>
FNickB == <<"N","I","C","K",SP,"b",CR,LF>>
FNickBad == <<"N","I","C","K",SP,"a","!",CR,LF>>
FUser == <<"U","S","E","R",SP,"u",SP,"0",SP,"*",SP,":","R",CR,LF>>
FJoin == <<"J","O","I","N",SP,"#","a",CR,LF>>
FWho == <<"w","h","o",CR,LF>>
FTopic == <<"t","o","p","i","c",SP,"#","a",SP,":","t",CR,LF>>
FQuit == <<"Q","U","I","T",SP,":","b","y","e",CR,LF>>

\* BufLimit + 1 bytes with no CRLF among them
FFlood == [k \in 1 .. (BufLimit + 1) |-> "x"]

\* a whole session in one segment: the handshake, then JOIN, then TOPIC
FJoinBare == <<"J","O","I","N",SP,"a",CR,LF>>
SJoinA == FPassOk \o FNickA \o FUser \o FJoin
SJoinTopicB == FPassOk \o FNickB \o FUser \o FJoin \o FTopic
SJoinBare == FPassOk \o FNickA \o FUser \o FJoinBare

SessionSegments == { SJoinA, SJoinTopicB, SJoinBare }

\* sessions that go on after the JOIN: a PART, and a PRIVMSG to the channel
FPart == <<"P","A","R","T",SP,"#","a",CR,LF>>
FMsgChan == <<"P","R","I","V","M","S","G",SP,"#","a",SP,":","t",CR,LF>>
SJoinPartB == FPassOk \o FNickB \o FUser \o FJoin \o FPart
SJoinMsgB == FPassOk \o FNickB \o FUser \o FJoin \o FMsgChan

MessageSegments == { SJoinA, SJoinPartB, SJoinMsgB }

\* the stream a peer sends in pieces: a frame of one letter, then a NICK
\* with no parameter
FramedStream == <<"x",CR,LF>> \o <<"N","I","C","K",CR,LF>>

FloodSegments == { FFlood, FWho }

Segments ==
    { FPassOk, FPassBad, FNickA, FNickBad, FUser, FJoin, FWho, FTopic,
      FPassOk \o FNickA \o FUser,
      FPassOk \o FUser \o FNickA,
      FPassBad \o FNickB,
      FPassBad \o FPassBad,
      FQuit }

\* what a pollfd's revents can hold where the code never wrote it: one value
\* for each outcome of the three tests Server::run makes on it
GarbageRevents == SUBSET {"POLLIN", "POLLOUT", "POLLERR"}

\* a scan that does not test POLLERR
ErrorBits_WithoutPollErr == {"POLLHUP", "POLLNVAL"}

ErrorBits == {"POLLERR", "POLLHUP", "POLLNVAL"}

\* the events poll() reports for a client descriptor (level-triggered)
Revents(s, events) ==
    IF ~s.open THEN {"POLLNVAL"}
    ELSE (IF s.err THEN {"POLLERR"} ELSE {})
           \cup (IF s.inq # <<>> \/ s.fin THEN {"POLLIN"} ELSE {})
           \cup (IF "POLLOUT" \in events /\ s.free > 0 THEN {"POLLOUT"} ELSE {})

\* a loop that never asks for POLLOUT
SetEvents_NeverPollout(pfds, cl) ==
    [k \in DOMAIN pfds |->
       IF k = 1 THEN pfds[k] ELSE [pfds[k] EXCEPT !.events = {"POLLIN"}]]

\* the loop of Server::run before poll(): POLLOUT only with pending output
\* (entry 1 is the listener)
SetEvents(pfds, cl) ==
    [k \in DOMAIN pfds |->
       IF k = 1 THEN pfds[k]
       ELSE [pfds[k] EXCEPT !.events =
               IF pfds[k].fd \in DOMAIN cl /\ cl[pfds[k].fd].outgoing # <<>>
               THEN {"POLLIN", "POLLOUT"} ELSE {"POLLIN"}]]

\* poll() filling revents
Polled(pfds) ==
    [k \in DOMAIN pfds |->
       [pfds[k] EXCEPT !.revents =
          IF k = 1 THEN (IF backlog > 0 THEN {"POLLIN"} ELSE {})
          ELSE Revents(sock[pfds[k].fd], pfds[k].events)]]

\* the state after Server::Server and Server::setup
Init ==
    /\ clients = <<>>
    /\ channels = <<>>
    /\ pollfds = <<[fd |-> ListenFd, events |-> {"POLLIN"}, revents |-> {}]>>
    /\ sock = [fd \in ClientFds |-> ClosedSock]
    /\ backlog = 0
    /\ pc = "poll"
    /\ i = 2
    /\ sent = <<>>
    /\ dispatched = <<>>
    /\ history = <<>>
    /\ nConns = 0
    /\ nSegs = 0

(***************************************************************************)
(* Environment actions.  The server only observes the sockets in poll(),   *)
(* recv() and send(), so what the peers do is taken between iterations,    *)
(* except a reset, which changes what a later recv() or send() of the same *)
(* iteration returns.                                                      *)
(***************************************************************************)
OpenSocks == { fd \in ClientFds : sock[fd].open }

Connect ==
    /\ pc = "poll"
    /\ nConns < MaxConns
    /\ Cardinality(OpenSocks) + backlog < MaxClients
    /\ backlog' = backlog + 1
    /\ nConns' = nConns + 1
    /\ UNCHANGED <<clients, channels, pollfds, sock, pc, i, sent, dispatched, history, nSegs>>

PeerSend(fd, seg) ==
    /\ pc = "poll"
    /\ nSegs < MaxSegs
    /\ sock[fd].open /\ ~sock[fd].fin /\ ~sock[fd].err /\ sock[fd].inq = <<>>
    /\ sock' = [sock EXCEPT ![fd].inq = seg]
    /\ nSegs' = nSegs + 1
    /\ UNCHANGED <<clients, channels, pollfds, backlog, pc, i, sent, dispatched, history, nConns>>

\* the peer sends the next n bytes of FramedStream, wherever that cuts it
PeerSendPiece(fd, n) ==
    /\ pc = "poll"
    /\ nSegs < MaxPieces
    /\ sock[fd].open /\ ~sock[fd].fin /\ ~sock[fd].err /\ sock[fd].inq = <<>>
    /\ fd \in DOMAIN clients
    /\ Len(clients[fd].received) + n <= Len(FramedStream)
    /\ sock' = [sock EXCEPT ![fd].inq =
                  SubSeq(FramedStream, Len(clients[fd].received) + 1,
                         Len(clients[fd].received) + n)]
    /\ nSegs' = nSegs + 1
    /\ UNCHANGED <<clients, channels, pollfds, backlog, pc, i, sent, dispatched, history, nConns>>

PeerRead(fd) ==
    /\ pc = "poll"
    /\ sock[fd].open /\ ~sock[fd].err /\ sock[fd].free < SndBufCap
    /\ sock' = [sock EXCEPT ![fd].free = SndBufCap]
    /\ UNCHANGED <<clients, channels, pollfds, backlog, pc, i, sent, dispatched, history, nConns, nSegs>>

PeerShutdown(fd) ==
    /\ pc = "poll"
    /\ sock[fd].open /\ ~sock[fd].fin /\ ~sock[fd].err
    /\ sock' = [sock EXCEPT ![fd].fin = TRUE]
    /\ UNCHANGED <<clients, channels, pollfds, backlog, pc, i, sent, dispatched, history, nConns, nSegs>>

PeerReset(fd) ==
    /\ pc # "exited"
    /\ sock[fd].open /\ ~sock[fd].err
    /\ sock' = [sock EXCEPT ![fd].err = TRUE, ![fd].inq = <<>>]
    /\ UNCHANGED <<clients, channels, pollfds, backlog, pc, i, sent, dispatched, history, nConns, nSegs>>

(***************************************************************************)
(* Server::run, one step at a time.                                        *)
(***************************************************************************)
\* poll() returns with some descriptor ready; the listener test follows
Poll ==
    /\ pc = "poll"
    /\ LET pfds == Polled(SetEvents(pollfds, clients))
       IN  /\ \E k \in DOMAIN pfds : pfds[k].revents # {}
           /\ pollfds' = pfds
           /\ pc' = IF "POLLIN" \in pfds[1].revents THEN "accept" ELSE "scan"
    /\ i' = 2
    /\ sent' = <<>>
    /\ dispatched' = <<>>
    /\ UNCHANGED <<clients, channels, sock, backlog, history, nConns, nSegs>>

\* poll() fails with EINTR: continue
PollInterrupted ==
    /\ pc = "poll"
    /\ pollfds' = SetEvents(pollfds, clients)
    /\ UNCHANGED <<clients, channels, sock, backlog, pc, i, sent, dispatched, history, nConns, nSegs>>

\* a break that removes every client on its way out
PollError_RemovesClients ==
    /\ pc = "poll"
    /\ Commit(RemoveAll([World EXCEPT !.pollfds = SetEvents(pollfds, clients)],
                        Ascending(DOMAIN clients), 1))
    /\ pc' = "exited"
    /\ UNCHANGED <<backlog, i, nConns, nSegs>>

\* poll() fails with another error: break
PollError ==
    /\ pc = "poll"
    /\ pollfds' = SetEvents(pollfds, clients)
    /\ pc' = "exited"
    /\ UNCHANGED <<clients, channels, sock, backlog, i, sent, dispatched, history, nConns, nSegs>>

\* Server::handleNewConnection, accept() returning the lowest free descriptor
HandleNewConnection ==
    /\ pc = "accept"
    /\ backlog > 0
    /\ LET free == { fd \in ClientFds : ~sock[fd].open }
           fd == CHOOSE x \in free : \A y \in free : x <= y
       IN  \E garbage \in GarbageRevents :
             Commit(ServerAddClient([World EXCEPT !.sock[fd] = FreshSock], fd, garbage))
    /\ backlog' = backlog - 1
    /\ pc' = "scan"
    /\ UNCHANGED <<i, nConns, nSegs>>

\* Server::handleNewConnection when accept() or setNonBlocking() fails
AcceptFails ==
    /\ pc = "accept"
    /\ backlog > 0
    /\ backlog' = backlog - 1
    /\ pc' = "scan"
    /\ UNCHANGED <<clients, channels, pollfds, sock, i, sent, dispatched, history, nConns, nSegs>>

\* one pass of the body of the scan loop of Server::run, at index i
ScanStep ==
    /\ pc = "scan"
    /\ i <= Len(pollfds)
    /\ LET fd == pollfds[i].fd
           rev == pollfds[i].revents
           w == World
           w1 == IF "POLLIN" \in rev THEN HandleClientData(w, fd) ELSE w
       IN  IF rev \cap ErrorBits # {}
           THEN Commit(IF fd \in DOMAIN clients THEN SetDisconnected(w, fd) ELSE w)
           ELSE \E pollout \in (IF i <= Len(w1.pollfds)
                                THEN {"POLLOUT" \in w1.pollfds[i].revents}
                                ELSE BOOLEAN) :
                  Commit(IF pollout /\ fd \in DOMAIN w1.clients
                         THEN SendPendingData(w1, fd) ELSE w1)
    /\ i' = i + 1
    /\ UNCHANGED <<backlog, pc, nConns, nSegs>>

\* the end of the scan: Server::checkAndRemoveDisconnectedClients
Sweep ==
    /\ pc = "scan"
    /\ i > Len(pollfds)
    /\ Commit(CheckAndRemoveDisconnectedClients(World))
    /\ pc' = "poll"
    /\ UNCHANGED <<backlog, i, nConns, nSegs>>

Next ==
    \/ Connect
    \/ \E fd \in ClientFds, seg \in Segments : PeerSend(fd, seg)
    \/ \E fd \in ClientFds : PeerRead(fd)
    \/ \E fd \in ClientFds : PeerShutdown(fd)
    \/ \E fd \in ClientFds : PeerReset(fd)
    \/ Poll
    \/ PollInterrupted
    \/ PollError
    \/ HandleNewConnection
    \/ AcceptFails
    \/ ScanStep
    \/ Sweep

Spec == Init /\ [][Next]_vars

\* the same server with peers that send more than BufLimit bytes without CRLF
NextFlood ==
    \/ Connect
    \/ \E fd \in ClientFds, seg \in FloodSegments : PeerSend(fd, seg)
    \/ \E fd \in ClientFds : PeerRead(fd)
    \/ \E fd \in ClientFds : PeerShutdown(fd)
    \/ \E fd \in ClientFds : PeerReset(fd)
    \/ Poll
    \/ PollInterrupted
    \/ PollError
    \/ HandleNewConnection
    \/ AcceptFails
    \/ ScanStep
    \/ Sweep

FloodSpec == Init /\ [][NextFlood]_vars

\* the same server with peers that send a whole session at once
NextSession ==
    \/ Connect
    \/ \E fd \in ClientFds, seg \in SessionSegments : PeerSend(fd, seg)
    \/ \E fd \in ClientFds : PeerRead(fd)
    \/ \E fd \in ClientFds : PeerShutdown(fd)
    \/ \E fd \in ClientFds : PeerReset(fd)
    \/ Poll
    \/ PollInterrupted
    \/ PollError
    \/ HandleNewConnection
    \/ AcceptFails
    \/ ScanStep
    \/ Sweep

SessionSpec == Init /\ [][NextSession]_vars

\* the same server with peers whose sessions go on to PART and PRIVMSG
NextMessage ==
    \/ Connect
    \/ \E fd \in ClientFds, seg \in MessageSegments : PeerSend(fd, seg)
    \/ \E fd \in ClientFds : PeerRead(fd)
    \/ \E fd \in ClientFds : PeerShutdown(fd)
    \/ \E fd \in ClientFds : PeerReset(fd)
    \/ Poll
    \/ PollInterrupted
    \/ PollError
    \/ HandleNewConnection
    \/ AcceptFails
    \/ ScanStep
    \/ Sweep

MessageSpec == Init /\ [][NextMessage]_vars

\* the same server with peers that send one stream cut at any byte
NextSplit ==
    \/ Connect
    \/ \E fd \in ClientFds, n \in 1 .. Len(FramedStream) : PeerSendPiece(fd, n)
    \/ \E fd \in ClientFds : PeerRead(fd)
    \/ \E fd \in ClientFds : PeerShutdown(fd)
    \/ \E fd \in ClientFds : PeerReset(fd)
    \/ Poll
    \/ PollInterrupted
    \/ PollError
    \/ HandleNewConnection
    \/ AcceptFails
    \/ ScanStep
    \/ Sweep

SplitSpec == Init /\ [][NextSplit]_vars

\* the same server with peers that send two JOINs in one segment, so that
\* the second reply does not fit the socket's send buffer
BacklogSegments == { FJoin \o FJoin }

NextBacklog ==
    \/ Connect
    \/ \E fd \in ClientFds, seg \in BacklogSegments : PeerSend(fd, seg)
    \/ \E fd \in ClientFds : PeerRead(fd)
    \/ \E fd \in ClientFds : PeerShutdown(fd)
    \/ \E fd \in ClientFds : PeerReset(fd)
    \/ Poll
    \/ PollInterrupted
    \/ PollError
    \/ HandleNewConnection
    \/ AcceptFails
    \/ ScanStep
    \/ Sweep

\* the scan loop has a pass to make: what ENABLED <<ScanStep>>_vars equals,
\* every pass being possible and moving i
ScanReady == pc = "scan" /\ i <= Len(pollfds)

\* WF_vars(ScanStep), with ScanReady for the enabling condition
ScanFair == []<>(~ScanReady) \/ []<><<ScanStep>>_vars

\* Server::run is one thread that goes from each step to the next, and
\* poll() returns once a descriptor is ready; a peer that keeps reading
\* empties the socket's send buffer again and again.
BacklogSpec ==
    /\ Init /\ [][NextBacklog]_vars
    /\ WF_vars(Poll)
    /\ WF_vars(HandleNewConnection \/ AcceptFails)
    /\ ScanFair
    /\ WF_vars(Sweep)
    /\ \A fd \in ClientFds : SF_vars(PeerRead(fd))


(***************************************************************************)
(* Properties.                                                             *)
(***************************************************************************)
\* the positions of a sequence whose element satisfies P
Where(seq, P(_)) == { k \in DOMAIN seq : P(seq[k]) }

RegistrationCommands == {PASS, NICK, USER, QUIT}

PassIncorrect == Line("464", <<>>, "Password incorrect")
NotRegistered == Line("451", <<>>, "You have not registered")

\* the handleCommand calls of this iteration for fd, and the numerics it was sent
DispatchedFor(fd) == SelectSeq(dispatched, LAMBDA e : e.fd = fd)
NumericsFor(fd) ==
    LET l == SelectSeq(sent, LAMBDA e : e.fd = fd)
    IN  [k \in DOMAIN l |-> l[k].line.num]

IsGoodPass(e) == e.command = PASS /\ e.params # <<>> /\ e.params[1] = Password
IsGoodNick(e) == e.command = NICK /\ e.params # <<>> /\ ~ErroneousNick(e.params[1])
IsGoodUser(e) == e.command = USER /\ Len(e.params) >= 4

\* fd has had exactly a good PASS, then a good NICK and a good USER in
\* either order, handled in this iteration while not registered
Registering(fd) ==
    LET d == DispatchedFor(fd)
    IN  /\ fd \in DOMAIN clients
        /\ Len(d) = 3
        /\ ~d[1].authenticated
        /\ IsGoodPass(d[1])
        /\ \/ IsGoodNick(d[2]) /\ IsGoodUser(d[3])
           \/ IsGoodUser(d[2]) /\ IsGoodNick(d[3])

\* C1: a client that is not registered and has had a PASS with the server
\* password, then a valid NICK and a USER with four parameters processed (in
\* either order) is registered and has been sent 001, 002, 003, 004, 422 in
\* that order, each with its nickname as target.
C1_RegistrationCompletes ==
    \A fd \in ClientFds :
      Registering(fd) =>
        /\ clients[fd].authenticated
        /\ NumericsFor(fd) = <<"001", "002", "003", "004", "422">>
        /\ \A k \in DOMAIN sent :
             sent[k].fd = fd => sent[k].line.args[1] = clients[fd].nickname

\* C3: every frame whose command is not PASS, NICK, USER or QUIT, handled for
\* a client that is not authenticated, gets a 451 reply to that client,
\* whatever the command name.
C3_UnregisteredGets451 ==
    \A fd \in ClientFds :
      LET frames == Where(dispatched, LAMBDA e :
                      e.fd = fd /\ ~e.authenticated
                        /\ e.command \notin RegistrationCommands)
          replies == Where(sent, LAMBDA e : e.fd = fd /\ e.line = NotRegistered)
      IN  Cardinality(replies) = Cardinality(frames)

\* the handleCommand calls a step adds to the log
NewlyDispatched == { k \in DOMAIN dispatched' : k > Len(dispatched) }

\* C4: a step that handles only frames with a command outside PASS, NICK,
\* USER, QUIT, for a client that is not authenticated, leaves the channel
\* registry (every channel's roster, operators and topic) and every client's
\* joined channels unchanged.
C4_UnregisteredLeavesChannels ==
    [][ ( /\ Len(dispatched') > Len(dispatched)
          /\ \A k \in NewlyDispatched :
               /\ ~dispatched'[k].authenticated
               /\ dispatched'[k].command \notin RegistrationCommands )
        => /\ channels' = channels
           /\ \A fd \in DOMAIN clients :
                /\ fd \in DOMAIN clients'
                /\ clients'[fd].channels = clients[fd].channels ]_vars

\* a JOIN of a client that is not authenticated was handled and answered 451
C4_Witness ==
    \E k \in DOMAIN dispatched :
      /\ dispatched[k].command = JOIN
      /\ dispatched[k].params = << <<"#", "a">> >>
      /\ ~dispatched[k].authenticated
      /\ \E j \in DOMAIN sent :
           sent[j].fd = dispatched[k].fd /\ sent[j].line = NotRegistered
      /\ channels = <<>>

\* C8: no two distinct connected clients hold the same non-empty nickname.
C8_NicknamesUnique ==
    \A a, b \in DOMAIN clients :
      (a # b /\ clients[a].nickname # <<>>) => clients[a].nickname # clients[b].nickname

\* C9: each PASS with a parameter other than the server password, from a
\* client that is not authenticated, sends that client 464; after the sweep
\* of that iteration the client is in neither clients nor the poll table.
C9_WrongPassDisconnects ==
    pc = "poll" =>
      \A fd \in ClientFds :
        LET wrong == Where(dispatched, LAMBDA e :
                       e.fd = fd /\ ~e.authenticated /\ e.command = PASS
                         /\ e.params # <<>> /\ e.params[1] # Password)
            replies == Where(sent, LAMBDA e : e.fd = fd /\ e.line = PassIncorrect)
        IN  wrong # {} =>
              /\ Cardinality(replies) = Cardinality(wrong)
              /\ fd \notin DOMAIN clients
              /\ \A k \in DOMAIN pollfds : pollfds[k].fd # fd

\* the whole chunk of a line is on the wire of fd
OnWire(fd, line) ==
    \E p \in DOMAIN sock[fd].wire :
      /\ p + LineLen - 1 <= Len(sock[fd].wire)
      /\ SubSeq(sock[fd].wire, p, p + LineLen - 1) = Units(line, 1, LineLen)

\* C10: after a PASS with a wrong password the socket is closed only once
\* the whole 464 line has been written to it, whatever the socket's
\* write-readiness when the reply is produced.
C10_PassIncorrectWrittenBeforeClose ==
    \A fd \in ClientFds :
      ( /\ ~sock[fd].open
        /\ \E k \in DOMAIN sent : sent[k].fd = fd /\ sent[k].line = PassIncorrect )
      => OnWire(fd, PassIncorrect)

BufferExceeded == Line("ERROR", <<>>, "Client exceeded buffer size limit")

\* C11: no client keeps more than 8192 bytes of input without a complete
\* frame; a client that was sent the buffer-limit ERROR has an empty buffer
\* and is marked disconnected.
C11_BufferOverflowDisconnects ==
    \A fd \in DOMAIN clients :
      /\ Len(clients[fd].buffer) <= BufLimit
      /\ (\E k \in DOMAIN sent : sent[k].fd = fd /\ sent[k].line = BufferExceeded)
           => /\ clients[fd].buffer = <<>>
              /\ clients[fd].disconnected

\* the sendData calls a step adds to the log
NewlySent == { k \in DOMAIN sent' : k > Len(sent) }

WrongPass(e) == e.command = PASS /\ e.params # <<>> /\ e.params[1] # Password

C13_NoDisconnectedBetweenIterations ==
    pc = "poll" => \A fd \in DOMAIN clients : ~clients[fd].disconnected

\* an iteration has ended in which a client was sent 464 Password incorrect
\* (and so was marked disconnected), and that client is gone
C13_Witness ==
    /\ pc = "poll"
    /\ \E k \in DOMAIN sent :
         /\ sent[k].line = PassIncorrect
         /\ sent[k].fd \notin DOMAIN clients
         /\ ~sock[sent[k].fd].open

C15_QuitDisconnects ==
    \A k \in DOMAIN dispatched :
      dispatched[k].command = QUIT =>
        \/ dispatched[k].fd \notin DOMAIN clients
        \/ /\ clients[dispatched[k].fd].disconnected
           /\ pc # "poll"

(***************************************************************************)
(* Registration and membership as the peers' frames establish them: a      *)
(* connection is registered once a PASS with the server password and, after *)
(* it, a valid NICK and a USER with four parameters have been handled.     *)
(***************************************************************************)
\* the last position up to p of h at which fd's client was removed, else 0
LastRemoval(h, fd, p) ==
    LET rs == { r \in 1 .. p : h[r].fd = fd /\ h[r].command = Removed }
    IN  IF rs = {} THEN 0 ELSE CHOOSE r \in rs : \A q \in rs : q <= r

\* before event p of h, the connection that made it completed the handshake
HandshakeDone(h, p) ==
    LET fd == h[p].fd
        r == LastRemoval(h, fd, p)
    IN  \E a \in (r + 1) .. (p - 1) :
          /\ h[a].fd = fd /\ IsGoodPass(h[a])
          /\ \E b, c \in (a + 1) .. (p - 1) :
               /\ h[b].fd = fd /\ IsGoodNick(h[b])
               /\ h[c].fd = fd /\ IsGoodUser(h[c])

\* event p of h is a JOIN with a parameter, made by a registered connection
IsJoin(h, p) ==
    h[p].command = JOIN /\ h[p].params # <<>> /\ HandshakeDone(h, p)

\* the descriptors whose connection, registered, sent JOIN name up to
\* position p of h and has not been removed since
JoinedBy(h, p, name) ==
    { fd \in ClientFds :
        \E j \in (LastRemoval(h, fd, p) + 1) .. p :
          h[j].fd = fd /\ IsJoin(h, j) /\ h[j].params[1] = name }

\* this step ends with the handling of a JOIN of a registered connection
JoinHandled ==
    /\ Len(history') > Len(history)
    /\ IsJoin(history', Len(history'))
    /\ history'[Len(history')].fd \in DOMAIN clients'

\* the sendData calls of this step, in order
NewSent == SubSeq(sent', Len(sent) + 1, Len(sent'))

\* C16: a JOIN by a registered client with a name that does not start with
\* '#' is answered 403 and changes no channel and no membership; with a name
\* absent from the registry it creates the channel with the joiner as only
\* member and only operator, no topic and topicRestricted set; with a name in
\* the registry it appends the joiner to the roster and leaves the operators.
C16_JoinCreatesOrAppends ==
    [][ JoinHandled =>
          LET fd == history'[Len(history')].fd
              name == history'[Len(history')].params[1]
          IN  IF name[1] # "#"
              THEN /\ \E k \in NewlySent :
                        sent'[k].fd = fd /\ sent'[k].line.num = "403"
                   /\ channels' = channels
                   /\ clients'[fd].channels = clients[fd].channels
              ELSE IF name \notin DOMAIN channels
              THEN /\ name \in DOMAIN channels'
                   /\ channels'[name].clients = <<fd>>
                   /\ channels'[name].operators = {fd}
                   /\ channels'[name].topic = <<>>
                   /\ channels'[name].topicRestricted
              ELSE /\ name \in DOMAIN channels'
                   /\ channels'[name].clients =
                        IF HasClient(channels[name], fd) THEN channels[name].clients
                        ELSE Append(channels[name].clients, fd)
                   /\ channels'[name].operators = channels[name].operators ]_vars

\* C17: the JOIN of a registered client on a channel name produces exactly
\* one line  :nick!user@host JOIN name  for each member of the channel's
\* roster after the join, the joiner included, in roster order.
C17_JoinFanOut ==
    [][ ( JoinHandled /\ history'[Len(history')].params[1][1] = "#" ) =>
          LET fd == history'[Len(history')].fd
              name == history'[Len(history')].params[1]
              joins == SelectSeq(NewSent, LAMBDA e : e.line.num = "JOIN")
          IN  /\ name \in DOMAIN channels'
              /\ HasClient(channels'[name], fd)
              /\ [k \in DOMAIN joins |-> joins[k].fd] = channels'[name].clients
              /\ \A k \in DOMAIN joins :
                   joins[k].line = Line("JOIN", <<clients'[fd].nickname,
                                                  clients'[fd].username, name>>, "") ]_vars

\* C18: the JOIN of a registered client on a channel name gives the joiner
\* its replies (331 or 332, 353, 366) and the channel its JOIN line, and
\* every one of the replies is handed to sendData before any JOIN line is.
C18_RepliesBeforeBroadcast ==
    [][ ( JoinHandled /\ history'[Len(history')].params[1][1] = "#" ) =>
          LET fd == history'[Len(history')].fd
              replies == { k \in DOMAIN NewSent :
                             /\ NewSent[k].fd = fd
                             /\ NewSent[k].line.num \in {"331", "332", "353", "366"} }
              casts == { k \in DOMAIN NewSent : NewSent[k].line.num = "JOIN" }
          IN  /\ \E k \in replies : NewSent[k].line.num \in {"331", "332"}
              /\ \E k \in replies : NewSent[k].line.num = "353"
              /\ \E k \in replies : NewSent[k].line.num = "366"
              /\ casts # {}
              /\ \A r \in replies, c \in casts : r < c ]_vars

\* C19: a TOPIC with two parameters from a registered client that joined the
\* channel when it already had a member (so it is a member and not an
\* operator of it; topicRestricted is set at creation) is answered 482 to
\* the sender, no TOPIC line is sent to anyone and the topic is unchanged.
C19_TopicNeedsOperator ==
    [][ LET h == history'
            p == Len(history')
        IN  ( /\ p > Len(history)
              /\ h[p].command = TOPIC
              /\ Len(h[p].params) >= 2
              /\ h[p].fd \in DOMAIN clients'
              /\ \E j \in (LastRemoval(h, h[p].fd, p) + 1) .. (p - 1) :
                   /\ h[j].fd = h[p].fd
                   /\ IsJoin(h, j)
                   /\ h[j].params[1] = h[p].params[1]
                   /\ JoinedBy(h, j - 1, h[p].params[1]) \ {h[p].fd} # {} )
            => /\ \E k \in NewlySent :
                    sent'[k].fd = h[p].fd /\ sent'[k].line.num = "482"
               /\ \A k \in NewlySent : sent'[k].line.num # "TOPIC"
               /\ \A name \in DOMAIN channels :
                    /\ name \in DOMAIN channels'
                    /\ channels'[name].topic = channels[name].topic ]_vars

\* C20: when every client that had joined a channel, at least one, has been
\* removed, the JOIN of a registered client on that name leaves a new
\* channel: the joiner is its only member and its operator, it has no topic
\* and no invitation.
C20_RejoinCreatesAnew ==
    [][ LET h == history'
            p == Len(history')
        IN  ( /\ JoinHandled
              /\ h[p].params[1][1] = "#"
              /\ JoinedBy(h, p - 1, h[p].params[1]) = {}
              /\ \E j \in 1 .. (p - 1) :
                   /\ IsJoin(h, j)
                   /\ h[j].params[1] = h[p].params[1]
                   /\ \E r \in (j + 1) .. (p - 1) :
                        h[r].fd = h[j].fd /\ h[r].command = Removed )
            => /\ h[p].params[1] \in DOMAIN channels'
               /\ channels'[h[p].params[1]].clients = <<h[p].fd>>
               /\ channels'[h[p].params[1]].operators = {h[p].fd}
               /\ channels'[h[p].params[1]].topic = <<>>
               /\ channels'[h[p].params[1]].invitedUsers = {} ]_vars

\* the position of the first JOIN name that fd's connection, registered, sent
\* since it was accepted, up to position p of h
FirstJoin(h, p, name, fd) ==
    LET js == { j \in (LastRemoval(h, fd, p) + 1) .. p :
                  h[j].fd = fd /\ IsJoin(h, j) /\ h[j].params[1] = name }
    IN  CHOOSE j \in js : \A q \in js : j <= q

\* the descriptors of S in the order in which they joined name
RECURSIVE JoinOrder(_, _, _, _)
JoinOrder(h, p, name, S) ==
    IF S = {} THEN <<>>
    ELSE LET m == CHOOSE x \in S :
                    \A y \in S : FirstJoin(h, p, name, x) <= FirstJoin(h, p, name, y)
         IN  <<m>> \o JoinOrder(h, p, name, S \ {m})

\* the names payload of a roster: '@' before an operator, the nickname, a space
RECURSIVE NamesPayload(_, _, _)
NamesPayload(roster, operators, cl) ==
    IF roster = <<>> THEN <<>>
    ELSE (IF roster[1] \in operators THEN <<"@">> ELSE <<>>)
           \o cl[roster[1]].nickname \o <<SP>>
           \o NamesPayload(Tail(roster), operators, cl)

\* C21: the JOIN of a registered client on a channel name sends the joiner
\* one 353 line whose payload lists the clients that joined the channel, in
\* join order, each nickname followed by one space and preceded by '@'
\* exactly when the client is in the channel's operator set; the first to
\* join a new channel is its operator.
C21_NamesInJoinOrder ==
    [][ ( JoinHandled /\ history'[Len(history')].params[1][1] = "#" ) =>
          LET h == history'
              p == Len(history')
              fd == h[p].fd
              name == h[p].params[1]
              order == JoinOrder(h, p, name, JoinedBy(h, p, name))
              names == SelectSeq(NewSent, LAMBDA e : e.fd = fd /\ e.line.num = "353")
          IN  /\ Len(names) = 1
              /\ name \in DOMAIN channels'
              /\ order[1] \in channels'[name].operators
              /\ names[1].line.args[3] =
                   NamesPayload(order, channels'[name].operators, clients') ]_vars

\* the descriptors whose connection, registered, sent JOIN name up to
\* position p of h and has neither sent PART name nor been removed since
MembersAt(h, p, name) ==
    { fd \in ClientFds :
        \E j \in (LastRemoval(h, fd, p) + 1) .. p :
          /\ h[j].fd = fd /\ IsJoin(h, j) /\ h[j].params[1] = name
          /\ \A q \in (j + 1) .. p :
               ~(h[q].fd = fd /\ h[q].command = PART
                   /\ h[q].params # <<>> /\ h[q].params[1] = name) }

\* C22: a PART name from a registered client that had joined name leaves the
\* sender out of the channel's roster and operator set and the channel out
\* of the sender's channels, hands a line  :nick!user@host PART name  to
\* every other member of the channel, and leaves the channel out of the
\* registry when the sender was its last member.
C22_PartLeavesChannel ==
    [][ LET h == history'
            p == Len(history')
        IN  ( /\ p > Len(history)
              /\ h[p].command = PART
              /\ h[p].params # <<>>
              /\ HandshakeDone(h, p)
              /\ h[p].fd \in MembersAt(h, p - 1, h[p].params[1])
              /\ h[p].fd \in DOMAIN clients' )
            => LET fd == h[p].fd
                   name == h[p].params[1]
                   others == MembersAt(h, p - 1, name) \ {fd}
                   parts == SelectSeq(NewSent, LAMBDA e : e.line.num = "PART")
               IN  /\ ~IsInChannel(clients'[fd], name)
                   /\ name \in DOMAIN channels' =>
                        /\ ~HasClient(channels'[name], fd)
                        /\ ~IsOperator(channels'[name], fd)
                   /\ others = {} => name \notin DOMAIN channels'
                   /\ \A o \in others : \E k \in DOMAIN parts : parts[k].fd = o
                   /\ \A k \in DOMAIN parts :
                        /\ parts[k].fd \in others \cup {fd}
                        /\ parts[k].line.args =
                             <<clients'[fd].nickname, clients'[fd].username, name>> ]_vars

\* C23: a PRIVMSG target :text from a registered client hands a PRIVMSG
\* line, when target starts with '#', to every member of that channel but
\* the sender and to nobody else; otherwise to the client whose nickname is
\* target and to nobody else, and when no client has that nickname the
\* sender is sent 401 and nobody a PRIVMSG line.
C23_PrivmsgDelivery ==
    [][ LET h == history'
            p == Len(history')
        IN  ( /\ p > Len(history)
              /\ h[p].command = PRIVMSG
              /\ Len(h[p].params) >= 2
              /\ h[p].params[1] # <<>>
              /\ HandshakeDone(h, p)
              /\ h[p].fd \in DOMAIN clients' )
            => LET fd == h[p].fd
                   target == h[p].params[1]
                   holders == { x \in DOMAIN clients : clients[x].nickname = target }
                   to == { NewSent[k].fd : k \in { q \in DOMAIN NewSent :
                                                    NewSent[q].line.num = "PRIVMSG" } }
               IN  IF target[1] = "#"
                   THEN to = MembersAt(h, p, target) \ {fd}
                   ELSE IF holders # {}
                   THEN to = holders
                   ELSE /\ to = {}
                        /\ \E k \in DOMAIN NewSent :
                             NewSent[k].fd = fd /\ NewSent[k].line.num = "401" ]_vars

\* s is a prefix of t
IsPrefix(s, t) == Len(s) <= Len(t) /\ SubSeq(t, 1, Len(s)) = s

\* the units of the chunks of a queue that are still to be written, in order
RECURSIVE Unsent(_)
Unsent(q) ==
    IF q = <<>> THEN <<>>
    ELSE Units(q[1].line, q[1].off + 1, LineLen) \o Unsent(Tail(q))

\* the units of the chunks sendData took for fd in this step, in call order
RECURSIVE ChunksFor(_, _)
ChunksFor(fd, calls) ==
    IF calls = <<>> THEN <<>>
    ELSE (IF calls[1].fd = fd THEN Units(calls[1].line, 1, LineLen) ELSE <<>>)
           \o ChunksFor(fd, Tail(calls))

\* C24: in every step and for every client, what is written to the socket
\* only grows, and what is written followed by what is queued is what it
\* was before followed by the chunks produced in the step, in call order
\* (cut short only when a send fails and the client is marked disconnected);
\* only the head chunk of the queue can be partly sent, and it keeps exactly
\* its unsent suffix.  So the bytes on the socket are always a prefix of the
\* chunks produced for the client, in order.
C24_OutputIsFifo ==
    [][ \A fd \in DOMAIN clients \cap DOMAIN clients' :
          LET before == sock[fd].wire \o Unsent(clients[fd].outgoing)
              after == sock'[fd].wire \o Unsent(clients'[fd].outgoing)
              q == clients'[fd].outgoing
          IN  /\ IsPrefix(sock[fd].wire, sock'[fd].wire)
              /\ IsPrefix(after, before \o ChunksFor(fd, NewSent))
              /\ ~clients'[fd].disconnected => after = before \o ChunksFor(fd, NewSent)
              /\ \A k \in DOMAIN q :
                   /\ q[k].off < LineLen
                   /\ k > 1 => q[k].off = 0 ]_vars

\* a short send left the suffix of a chunk at the head of the queue, and a
\* chunk produced later waits behind it
C24_Witness ==
    \E fd \in DOMAIN clients :
      /\ Len(clients[fd].outgoing) >= 2
      /\ clients[fd].outgoing[1].off > 0
      /\ sock[fd].wire # <<>>

\* the (command, params) handled for fd's connection since it was accepted
EventsOf(fd) ==
    LET r == LastRemoval(history, fd, Len(history))
        es == SelectSeq(SubSeq(history, r + 1, Len(history)), LAMBDA e : e.fd = fd)
    IN  [k \in DOMAIN es |-> [command |-> es[k].command, params |-> es[k].params]]

\* the (command, params) of the frames of a stream read at once: the lines
\* its CRLFs end, the empty ones and those the parser gives up on left out
RECURSIVE Unsplit(_)
Unsplit(data) ==
    LET pos == Find(data, <<CR, LF>>, 1)
        line == SubSeq(data, 1, pos - 1)
        p == ParseLine(line)
    IN  IF pos = 0 THEN <<>>
        ELSE (IF line # <<>> /\ p.ok
              THEN <<[command |-> p.command, params |-> p.params]>> ELSE <<>>)
               \o Unsplit(SubstrFrom(data, pos + 2))

RECURSIVE FrameLines(_)
FrameLines(data) ==
    LET pos == Find(data, <<CR, LF>>, 1)
        line == SubSeq(data, 1, pos - 1)
    IN  IF pos = 0 THEN <<>>
        ELSE (IF line # <<>> /\ ParseLine(line).ok THEN <<line>> ELSE <<>>)
               \o FrameLines(SubstrFrom(data, pos + 2))

\* a line without prefix has a trailing parameter
HasTrailing(line) == line[1] # ":" /\ Find(line, <<SP, ":">>, 1) # 0

\* the parameters the grammar  command (SP param)* [SP ":" trailing]  gives
\* such a line: the middle parameters, then the trailing text as it stands
GrammarParams(line) ==
    LET cmdEnd == Find(line, <<SP>>, 1)
        t == Find(line, <<SP, ":">>, 1)
    IN  Tokens(SubSeq(line, cmdEnd + 1, t - 1)) \o <<SubstrFrom(line, t + 2)>>

\* C26: for every frame a client has sent that has a trailing parameter
\* introduced by " :", the parameters handed to handleCommand are the middle
\* parameters in order followed by the trailing text as one last parameter,
\* with its spaces and without the colon, also when the trailing parameter
\* is the only one.
C26_TrailingParameter ==
    \A fd \in DOMAIN clients :
      LET lines == FrameLines(clients[fd].received)
          ev == EventsOf(fd)
      IN  /\ Len(ev) = Len(lines)
          /\ \A k \in DOMAIN lines :
               HasTrailing(lines[k]) => ev[k].params = GrammarParams(lines[k])

\* C27: between loop iterations every descriptor of the poll array is the
\* listener or a key of clients.
C27_PollfdsAreListenerOrClients ==
    pc \in {"poll", "exited"} =>
      \A k \in DOMAIN pollfds :
        pollfds[k].fd = ListenFd \/ pollfds[k].fd \in DOMAIN clients

\* between iterations, after a client was removed, with a client's
\* descriptor in the poll array
C27_Witness ==
    /\ pc = "poll"
    /\ \E k \in DOMAIN history : history[k].command = Removed
    /\ \E k \in DOMAIN pollfds : pollfds[k].fd \in DOMAIN clients

\* C28: a step takes a client out of clients, or closes its descriptor,
\* only if it is the sweep at the end of the scan; so a client whose recv()
\* returned 0 or failed stays in clients and in the poll array until the
\* scan has finished.
C28_RemovedOnlyBySweep ==
    [][ ( \E fd \in DOMAIN clients :
            \/ fd \notin DOMAIN clients'
            \/ sock[fd].open /\ ~sock'[fd].open
            \/ \A k \in DOMAIN pollfds' : pollfds'[k].fd # fd )
          => ( pc = "scan" /\ i > Len(pollfds) /\ pc' = "poll" ) ]_vars

\* C29: output goes through the queue only.  A step in which the descriptor
\* under scan is not reported writable writes nothing to any socket, and
\* each line sendData took in it for a client is one whole chunk appended,
\* in call order, to the tail of that client's queue; bytes reach a socket
\* only in the step that drains the queue of the descriptor reported
\* writable.
C29_OutputOnlyThroughQueue ==
    [][ /\ \A fd \in ClientFds :
             ( sock[fd].open /\ sock'[fd].open /\ sock'[fd].wire # sock[fd].wire )
               => /\ pc = "scan" /\ i <= Len(pollfds)
                  /\ pollfds[i].fd = fd
                  /\ "POLLOUT" \in pollfds[i].revents
        /\ ( pc = "scan" /\ i <= Len(pollfds) /\ "POLLOUT" \notin pollfds[i].revents )
             => \A fd \in DOMAIN clients \cap DOMAIN clients' :
                  Unsent(clients'[fd].outgoing) =
                    Unsent(clients[fd].outgoing) \o ChunksFor(fd, NewSent) ]_vars

\* C30: when the listener is reported readable, the accept phase of the
\* iteration ends with no connection left pending, and every descriptor it
\* accepted is in clients and in the poll array before the scan of the
\* client descriptors starts.
C30_AcceptsAllPending ==
    [][ ( pc = "accept" /\ pc' = "scan" ) =>
          /\ backlog' = 0
          /\ \A fd \in ClientFds :
               ( ~sock[fd].open /\ sock'[fd].open ) =>
                 /\ fd \in DOMAIN clients'
                 /\ \E k \in DOMAIN pollfds' : pollfds'[k].fd = fd ]_vars

\* this step is one pass of the scan loop, at index i
ScanPass == pc = "scan" /\ i <= Len(pollfds) /\ i' = i + 1

\* C31: in a pass of the scan over a descriptor reported with error, hangup
\* or invalid, the client is marked disconnected and nothing else happens:
\* nothing is read, handled, sent or written.  In a pass over a descriptor
\* reported readable the read handler runs before the write drain: when the
\* read handler removes the client, nothing is written to its socket.
C31_ReadBeforeWriteAndErrorsOnlyMark ==
    [][ ScanPass =>
          LET fd == pollfds[i].fd
              rev == pollfds[i].revents
              failed == rev \cap {"POLLERR", "POLLHUP", "POLLNVAL"} # {}
          IN  /\ failed =>
                   /\ sock' = sock
                   /\ pollfds' = pollfds
                   /\ channels' = channels
                   /\ history' = history
                   /\ dispatched' = dispatched
                   /\ sent' = sent
                   /\ clients' = IF fd \in DOMAIN clients
                                 THEN [clients EXCEPT ![fd].disconnected = TRUE]
                                 ELSE clients
              /\ ( ~failed /\ "POLLIN" \in rev
                     /\ fd \in DOMAIN clients /\ fd \notin DOMAIN clients' )
                   => sock'[fd].wire = sock[fd].wire ]_vars

\* the scan has passed a descriptor reported with an error and as writable,
\* whose client has output queued and is marked disconnected
C31_Witness ==
    /\ pc = "scan"
    /\ \E k \in 2 .. (i - 1) :
         /\ k <= Len(pollfds)
         /\ "POLLERR" \in pollfds[k].revents
         /\ "POLLOUT" \in pollfds[k].revents
         /\ pollfds[k].fd \in DOMAIN clients
         /\ clients[pollfds[k].fd].disconnected
         /\ clients[pollfds[k].fd].outgoing # <<>>

\* fd's client has output queued and is not marked disconnected
Backlogged(fd) ==
    /\ fd \in DOMAIN clients
    /\ ~clients[fd].disconnected
    /\ clients[fd].outgoing # <<>>

\* the events Server::run asks poll() for are POLLIN, and POLLOUT with it
\* exactly for the clients with output queued
MaskFollowsQueue ==
    \A k \in 2 .. Len(pollfds') :
      LET fd == pollfds'[k].fd
      IN  fd \in DOMAIN clients =>
            pollfds'[k].events = IF clients[fd].outgoing # <<>>
                                 THEN {"POLLIN", "POLLOUT"} ELSE {"POLLIN"}

\* C32: every poll() asks write-readiness exactly for the clients whose
\* queue is not empty, and read-readiness for all; and a client with output
\* queued that is not marked disconnected, whose peer keeps reading, has
\* its queue emptied (every chunk written in full) unless in the meantime
\* it is marked disconnected or removed or the loop ends.
C32_BackpressureRelieved ==
    /\ [][ ( pc = "poll" /\ pc' # "poll" ) => MaskFollowsQueue ]_vars
    /\ \A fd \in ClientFds :
         Backlogged(fd) ~> \/ fd \notin DOMAIN clients
                           \/ clients[fd].disconnected
                           \/ clients[fd].outgoing = <<>>
                           \/ pc = "exited"

\* a client whose second reply was queued after a short send has had its
\* queue emptied: both chunks are on the socket in full
C32_Witness ==
    \E fd \in DOMAIN clients :
      /\ ~clients[fd].disconnected
      /\ clients[fd].outgoing = <<>>
      /\ Len(sock[fd].wire) = 2 * LineLen
      /\ SndBufCap < 2 * LineLen

\* the server's side of the state is as it was: no client added, removed or
\* changed, no channel changed, nothing read, handled, sent, written or closed
ServerUntouched ==
    /\ clients' = clients
    /\ channels' = channels
    /\ history' = history
    /\ dispatched' = dispatched
    /\ sent' = sent
    /\ backlog' >= backlog
    /\ \A fd \in ClientFds :
         /\ sock'[fd].open = sock[fd].open
         /\ sock'[fd].wire = sock[fd].wire
         /\ IsPrefix(sock[fd].inq, sock'[fd].inq) \/ sock'[fd].err

\* C33: the loop is left only from the poll() call, and while the loop is at
\* the poll() call, whether poll() fails with EINTR and the loop starts
\* over or fails otherwise and the loop is left, no descriptor is processed
\* and clients and channels are unchanged; once left, the loop does nothing.
C33_LoopEndsOnlyOnPollFailure ==
    [][ /\ pc' = "exited" => pc \in {"poll", "exited"}
        /\ ( pc = "poll" /\ pc' \in {"poll", "exited"} ) => ServerUntouched
        /\ pc = "exited" => ( pc' = "exited" /\ ServerUntouched /\ pollfds' = pollfds )
      ]_vars

\* the loop has been left with a client connected whose output is queued
C33_Witness ==
    /\ pc = "exited"
    /\ \E fd \in DOMAIN clients : clients[fd].outgoing # <<>>

\* C34: between loop iterations the first entry of the poll array is the
\* listener's, and the other entries correspond one to one to the keys of
\* clients: every client has exactly one entry and no descriptor has two.
C34_PollfdsMatchClients ==
    pc \in {"poll", "exited"} =>
      /\ pollfds # <<>>
      /\ pollfds[1].fd = ListenFd
      /\ \A fd \in DOMAIN clients :
           Cardinality({ k \in 2 .. Len(pollfds) : pollfds[k].fd = fd }) = 1
      /\ \A k \in 2 .. Len(pollfds) : pollfds[k].fd \in DOMAIN clients
      /\ \A k, l \in DOMAIN pollfds : pollfds[k].fd = pollfds[l].fd => k = l

\* between iterations, the client accepted first has been removed and the
\* entry of the one accepted second has moved next to the listener's
C34_Witness ==
    /\ pc = "poll"
    /\ DOMAIN clients = {ListenFd + 2}
    /\ Len(pollfds) = 2
    /\ pollfds[2].fd = ListenFd + 2
    /\ \E k \in DOMAIN history :
         history[k].fd = ListenFd + 1 /\ history[k].command = Removed

\* C35: when the scan of an iteration has finished, no descriptor of the
\* poll array that poll() reported readable (and not in error) still has
\* the bytes its peer sent unread: the read handler ran for each of them,
\* also when a client before it was removed during the scan.
C35_EveryReadableIsRead ==
    ( pc = "scan" /\ i > Len(pollfds) ) =>
      \A k \in 2 .. Len(pollfds) :
        LET fd == pollfds[k].fd
        IN  ( /\ "POLLIN" \in pollfds[k].revents
              /\ pollfds[k].revents \cap {"POLLERR", "POLLHUP", "POLLNVAL"} = {}
              /\ sock[fd].open /\ ~sock[fd].err )
            => sock[fd].inq = <<>>


\* C36: once a client is marked disconnected no later frame of it is
\* dispatched. No handleCommand call of a connection follows a PASS with a
\* wrong password of the same connection, and a client whose first frame was
\* such a PASS keeps the empty nickname and username and the unregistered
\* state it had: in `PASS wrong` then `NICK x` of one read, the NICK changes
\* nothing.
C36_NoDispatchAfterDisconnect ==
    /\ \A p, q \in DOMAIN history :
         ( /\ p < q
           /\ WrongPass(history[p])
           /\ history[q].fd = history[p].fd
           /\ LastRemoval(history, history[p].fd, q) < p )
         => history[q].command = Removed
    /\ \A fd \in DOMAIN clients :
         LET r == LastRemoval(history, fd, Len(history))
             es == SelectSeq(SubSeq(history, r + 1, Len(history)),
                             LAMBDA e : e.fd = fd)
         IN  ( es # <<>> /\ WrongPass(es[1]) )
             => /\ clients[fd].nickname = <<>>
                /\ clients[fd].username = <<>>
                /\ ~clients[fd].authenticated
                /\ clients[fd].channels = <<>>

=============================================================================
